---- MODULE Spec2Model ----
(***************************************************************************)
(* Derived-state maintenance of the easyway database: the single-active-   *)
(* resume trigger, the contact vote-count trigger, the profile-completeness*)
(* trigger and the public contact view, as PostgreSQL executes them for    *)
(* statements issued by authenticated users under row-level security.      *)
(*                                                                         *)
(* A statement is one atomic step: the row triggers it fires, the          *)
(* constraint and policy checks, and the rollback of everything when one   *)
(* of them fails are all part of the step.  The specifications of          *)
(* concurrent statements split it in two, the statement's reads and its    *)
(* commit, and txs holds what each session's statement in flight has read. *)
(* sqlstate holds the SQLSTATE                                             *)
(* the last statement returned to its caller, listing the rows the last    *)
(* SELECT on public_contacts_view returned, request the user_id and the    *)
(* profile_completeness column of the last statement on user_profiles and  *)
(* the number of rows it wrote.                                            *)
(***************************************************************************)
EXTENDS Integers, Sequences, FiniteSets

VARIABLES resumes, contacts, votes, profiles, now, sqlstate, listing, request,
          txs

\* The applications table, and the state of the two components that write
\* it from the browser.  outbox holds the applications whose email the send
\* endpoint has accepted; displayed, sendingId and sending are the
\* Applications component's list of rows, its sendingId and the position of
\* each handleSendEmail call in flight; results, generating and batch are
\* the BatchGeneratePostsModal's results, its generating flag and the
\* position of generateAllMessages.
VARIABLES applications, outbox, displayed, sendingId, sending, results,
          generating, batch

appvars == <<applications, outbox, displayed, sendingId, sending, results,
             generating, batch>>

vars == <<resumes, contacts, votes, profiles, now, sqlstate, listing, request,
          txs, appvars>>

(* ------------------------------ bounds --------------------------------- *)

MaxResumes == 3

MaxVoteIds == 2

MaxCounter == 1

MaxTime == 1

MaxYears == 1

MaxApplications == 2

MaxPosts == 2

\* auth.users: two users, so that every policy's auth.uid() = user_id has a
\* caller who is the row's owner and one who is not.
Users == {1, 2}

ResumeIds == 1..MaxResumes

(* --------------------------- SQL outcomes ------------------------------ *)

\* successful_completion
SqlOk == "00000"

\* unique_violation
SqlUnique == "23505"

\* insufficient_privilege: "new row violates row-level security policy"
SqlRls == "42501"

\* check_violation
SqlCheck == "23514"

\* foreign_key_violation
SqlForeignKey == "23503"

\* A column of a statement: <<v>> when the statement gives it the value v,
\* <<>> when the statement leaves it out (an INSERT then takes the column's
\* DEFAULT, an UPDATE keeps the row's value).
Omitted == <<>>

Optional(S) == {Omitted} \cup { <<v>> : v \in S }

Given(col, otherwise) == IF col = Omitted THEN otherwise ELSE col[1]

\* SQL NULL of a boolean column, next to "true" and "false".
BoolVals == {"true", "false", "null"}

\* The database sessions that run statements at the same time, and a session
\* with no statement in flight.
Sessions == {"s1", "s2"}

Idle == <<>>

\* The applications table is empty, the Applications component has fetched
\* nothing and sends nothing, and no BatchGeneratePostsModal is mounted.
InitApp ==
  /\ applications = {}
  /\ outbox = {}
  /\ displayed = {}
  /\ sendingId = <<>>
  /\ sending = [id \in 1..MaxApplications |-> Idle]
  /\ results = <<>>
  /\ generating = FALSE
  /\ batch = Idle

(* ------------------------------ resumes -------------------------------- *)

ResumeNames == {"My Resume", "CV"}

\* resumes.is_active boolean DEFAULT true
IsActiveDefault == "true"

\* resumes.resume_name text DEFAULT 'My Resume'
ResumeNameDefault == "My Resume"

\* gen_random_uuid(): an id no row of the table has.
FreshResumeIds == ResumeIds \ {r.id : r \in resumes}

\* Policies "Users can ... own resumes": USING / WITH CHECK (auth.uid() = user_id)
ResumeRls(actor, row) == actor = row.user_id

ensure_single_active_resume_Unconditional(new, actor, table) ==
  { IF r.user_id = new.user_id /\ r.id # new.id /\ r.is_active = "true"
       /\ ResumeRls(actor, r)
    THEN [r EXCEPT !.is_active = "false"] ELSE r : r \in table }

ensure_single_active_resume_AllOwners(new, actor, table) ==
  IF new.is_active = "true"
  THEN { IF r.id # new.id /\ r.is_active = "true"
         THEN [r EXCEPT !.is_active = "false"] ELSE r : r \in table }
  ELSE table

ensure_single_active_resume_Promotes(new, actor, table) ==
  LET mine == { r \in table : r.user_id = new.user_id /\ r.id # new.id
                                /\ ResumeRls(actor, r) }
  IN  IF new.is_active = "true"
      THEN { IF r \in mine /\ r.is_active = "true"
             THEN [r EXCEPT !.is_active = "false"] ELSE r : r \in table }
      ELSE IF mine # {} /\ \A r \in mine : r.is_active # "true"
      THEN LET first == CHOOSE r \in mine : \A q \in mine : r.id <= q.id
           IN  (table \ {first}) \cup {[first EXCEPT !.is_active = "true"]}
      ELSE table

ensure_single_active_resume_Toggles(new, actor, table) ==
  IF new.is_active = "true"
  THEN { IF r.user_id = new.user_id /\ r.id # new.id /\ ResumeRls(actor, r)
         THEN [r EXCEPT !.is_active = IF @ = "true" THEN "false" ELSE "true"]
         ELSE r : r \in table }
  ELSE table

ensure_single_active_resume_KeepsOne(new, actor, table) ==
  IF new.is_active = "true"
  THEN LET hit == { r \in table : r.user_id = new.user_id /\ r.id # new.id
                                  /\ r.is_active = "true" /\ ResumeRls(actor, r) }
           spared == IF hit = {} THEN {}
                     ELSE {CHOOSE r \in hit : \A q \in hit : r.id <= q.id}
       IN  { IF r \in hit \ spared
             THEN [r EXCEPT !.is_active = "false"] ELSE r : r \in table }
  ELSE table

ensure_single_active_resume_OnlyOnChange(new, actor, table) ==
  IF new.is_active = "true"
     /\ ~\E r \in table : r.id = new.id /\ r.is_active = "true"
  THEN { IF r.user_id = new.user_id /\ r.id # new.id /\ r.is_active = "true"
            /\ ResumeRls(actor, r)
         THEN [r EXCEPT !.is_active = "false"] ELSE r : r \in table }
  ELSE table

\* The BEFORE INSERT OR UPDATE row trigger: the table after its UPDATE of the
\* sibling rows.  The UPDATE runs as the caller, so the resumes UPDATE policy
\* filters the rows it can reach.
ensure_single_active_resume(new, actor, table) ==
  IF new.is_active = "true"
  THEN { IF r.user_id = new.user_id /\ r.id # new.id /\ r.is_active = "true"
            /\ ResumeRls(actor, r)
         THEN [r EXCEPT !.is_active = "false"] ELSE r : r \in table }
  ELSE table

\* INSERT INTO resumes (user_id, is_active, resume_name) VALUES (...), as
\* handleFileUpload issues it; is_active and resume_name may be left out.
InsertResume(actor, user_id, is_active, resume_name) ==
  /\ FreshResumeIds # {}
  /\ LET id == CHOOSE i \in FreshResumeIds : \A j \in FreshResumeIds : i <= j
         new == [id |-> id, user_id |-> user_id,
                 is_active |-> Given(is_active, IsActiveDefault),
                 resume_name |-> Given(resume_name, ResumeNameDefault)]
         after == ensure_single_active_resume(new, actor, resumes)
     IN  IF ResumeRls(actor, new)
         THEN /\ resumes' = after \cup {new}
              /\ sqlstate' = SqlOk
         ELSE /\ resumes' = resumes
              /\ sqlstate' = SqlRls
  /\ UNCHANGED <<contacts, votes, profiles, now, listing, request, txs,
               appvars>>

\* The row an UPDATE of `old` writes once the BEFORE trigger has run, or the
\* refusal of the statement.  A row the caller does not own is filtered out
\* by the policy's USING clause: the statement succeeds and updates nothing.
\* A new row that fails WITH CHECK aborts the statement, the trigger's UPDATE
\* of the siblings included.
WriteResume(actor, old, new) ==
  LET after == ensure_single_active_resume(new, actor, resumes)
  IN  IF ~ResumeRls(actor, old)
      THEN /\ resumes' = resumes
           /\ sqlstate' = SqlOk
      ELSE IF ~ResumeRls(actor, new)
      THEN /\ resumes' = resumes
           /\ sqlstate' = SqlRls
      ELSE /\ resumes' = (after \ {old}) \cup {new}
           /\ sqlstate' = SqlOk

\* UPDATE resumes SET is_active = .., resume_name = .. WHERE id = :id, as
\* handleSetActive and handleRename issue it; either column may be left out.
UpdateResume(actor, id, is_active, resume_name) ==
  /\ \E old \in resumes :
       /\ old.id = id
       /\ WriteResume(actor, old,
            [old EXCEPT !.is_active = Given(is_active, @),
                        !.resume_name = Given(resume_name, @)])
  /\ UNCHANGED <<contacts, votes, profiles, now, listing, request, txs,
               appvars>>

\* UPDATE resumes SET user_id = :user_id WHERE id = :id.
ReassignResume(actor, id, user_id) ==
  /\ \E old \in resumes :
       /\ old.id = id
       /\ WriteResume(actor, old, [old EXCEPT !.user_id = user_id])
  /\ UNCHANGED <<contacts, votes, profiles, now, listing, request, txs,
               appvars>>

\* DELETE FROM resumes WHERE id = :id, as handleDelete issues it.  No trigger
\* fires on DELETE.
DeleteResume(actor, id) ==
  /\ \E old \in resumes :
       /\ old.id = id
       /\ resumes' = IF ResumeRls(actor, old) THEN resumes \ {old} ELSE resumes
  /\ sqlstate' = SqlOk
  /\ UNCHANGED <<contacts, votes, profiles, now, listing, request, txs,
               appvars>>

ActiveResumes(u) == { r \in resumes : r.user_id = u /\ r.is_active = "true" }

OwnedResumes(u) == { r \in resumes : r.user_id = u }

Init ==
  /\ resumes = {}
  /\ contacts = {}
  /\ votes = {}
  /\ profiles = {}
  /\ now = 0
  /\ sqlstate = SqlOk
  /\ listing = <<>>
  /\ request = <<>>
  /\ txs = [t \in Sessions |-> Idle]
  /\ InitApp

NextResumes ==
  \/ \E actor \in Users, user_id \in Users,
        is_active \in Optional(BoolVals),
        resume_name \in Optional(ResumeNames) :
       InsertResume(actor, user_id, is_active, resume_name)
  \/ \E actor \in Users, id \in ResumeIds,
        is_active \in Optional(BoolVals),
        resume_name \in Optional(ResumeNames) :
       UpdateResume(actor, id, is_active, resume_name)
  \/ \E actor \in Users, id \in ResumeIds, user_id \in Users :
       ReassignResume(actor, id, user_id)
  \/ \E actor \in Users, id \in ResumeIds : DeleteResume(actor, id)

SpecResumes == Init /\ [][NextResumes]_vars

\* The resumes table as the migration can find it: rows written before the
\* trigger existed, each given is_active by ADD COLUMN .. DEFAULT true or by
\* a statement run while no trigger was installed, so that an owner may have
\* several active resumes or none.
LegacyRow(id, legacy) ==
  [id |-> id, user_id |-> legacy.user_id, is_active |-> legacy.is_active,
   resume_name |-> ResumeNameDefault]

InitLegacy ==
  /\ \E ids \in SUBSET ResumeIds,
        legacy \in [ResumeIds -> [user_id : Users, is_active : {"true", "false"}]] :
       resumes = { LegacyRow(id, legacy[id]) : id \in ids }
  /\ contacts = {}
  /\ votes = {}
  /\ profiles = {}
  /\ now = 0
  /\ sqlstate = SqlOk
  /\ listing = <<>>
  /\ request = <<>>
  /\ txs = [t \in Sessions |-> Idle]
  /\ InitApp

SpecResumesLegacy == InitLegacy /\ [][NextResumes]_vars

(* ------------------- resumes: concurrent statements -------------------- *)

\* Each statement the application issues is its own transaction, at the
\* READ COMMITTED level the database defaults to.  The UPDATE inside the
\* trigger reads the rows committed when it starts: it does not see what a
\* statement still in flight has written.  At its commit the statement's
\* writes become visible at once.  A row the UPDATE found is read again in
\* its latest committed version before it is written, and is skipped when it
\* no longer satisfies the WHERE clause.

\* deadlock_detected, the SQLSTATE of a statement the database aborts to
\* break a lock cycle; the trigger's UPDATE takes row locks.
SqlDeadlock == "40P01"

\* The resumes an UPDATE statement in flight in another session has locked:
\* the row an UPDATE writes is locked from when the statement finds it to
\* its commit.
LockedResumes(t) ==
  { txs[s].old.id : s \in { x \in Sessions \ {t} : txs[x] # Idle
                                               /\ txs[x].relation = "resumes"
                                               /\ txs[x].kind = "UPDATE" } }

\* gen_random_uuid(): an id no row has, committed or in flight.
FreshResumeIdsTx ==
  FreshResumeIds \ { txs[s].new.id : s \in { x \in Sessions : txs[x] # Idle
                                                /\ txs[x].relation = "resumes" } }

\* The ids of the rows the trigger's UPDATE finds in the committed table.
SiblingsFound(new, actor) ==
  { r.id : r \in resumes \ ensure_single_active_resume(new, actor, resumes) }

\* The statement in flight: the row it writes, the row it replaces and the
\* siblings its trigger has found.
ResumeTx(kind, actor, old, new) ==
  [relation |-> "resumes", kind |-> kind, actor |-> actor, old |-> old,
   new |-> new, found |-> SiblingsFound(new, actor)]

\* handleFileUpload's INSERT up to the trigger's UPDATE having read its rows.
\* An INSERT the policy refuses ends here.
BeginInsertResume(t, actor, user_id, is_active) ==
  /\ txs[t] = Idle
  /\ FreshResumeIdsTx # {}
  /\ LET id == CHOOSE i \in FreshResumeIdsTx : \A j \in FreshResumeIdsTx : i <= j
         new == [id |-> id, user_id |-> user_id,
                 is_active |-> Given(is_active, IsActiveDefault),
                 resume_name |-> ResumeNameDefault]
     IN  IF ResumeRls(actor, new)
         THEN /\ txs' = [txs EXCEPT ![t] = ResumeTx("INSERT", actor, new, new)]
              /\ sqlstate' = sqlstate
         ELSE /\ txs' = txs
              /\ sqlstate' = SqlRls
  /\ UNCHANGED <<resumes, contacts, votes, profiles, now, listing, request,
               appvars>>

\* handleSetActive's UPDATE up to the trigger's UPDATE having read its rows.
\* The statement waits while another statement in flight holds the row; a
\* row of another user is filtered out by the policy and the statement ends
\* having updated nothing.
BeginUpdateResume(t, actor, id, is_active) ==
  /\ txs[t] = Idle
  /\ id \notin LockedResumes(t)
  /\ \E old \in resumes :
       /\ old.id = id
       /\ IF ResumeRls(actor, old)
          THEN /\ txs' = [txs EXCEPT ![t] =
                           ResumeTx("UPDATE", actor, old,
                                    [old EXCEPT !.is_active = is_active])]
               /\ sqlstate' = sqlstate
          ELSE /\ txs' = txs
               /\ sqlstate' = SqlOk
  /\ UNCHANGED <<resumes, contacts, votes, profiles, now, listing, request,
               appvars>>

\* The rest of the statement and its commit: the trigger's UPDATE writes the
\* rows it found, as they are now, once no other statement holds any of
\* them; then the statement's own row is written.
CommitResume(t) ==
  /\ txs[t] # Idle
  /\ txs[t].relation = "resumes"
  /\ txs[t].found \cap LockedResumes(t) = {}
  /\ LET tx == txs[t]
         found == { r \in resumes : r.id \in tx.found }
         after == ensure_single_active_resume(tx.new, tx.actor, found)
                    \cup (resumes \ found)
     IN  resumes' = (after \ {tx.old}) \cup {tx.new}
  /\ sqlstate' = SqlOk
  /\ txs' = [txs EXCEPT ![t] = Idle]
  /\ UNCHANGED <<contacts, votes, profiles, now, listing, request, appvars>>

ensure_single_active_resume_exception_Handled(sqlerrm) == "RETURN NEW"

\* What the function does with an error of its UPDATE: its body has no
\* EXCEPTION clause, so the error leaves the function and the statement that
\* fired the trigger is aborted.
ensure_single_active_resume_exception(sqlerrm) == "RAISE"

\* The trigger's UPDATE fails (the database breaks a lock cycle between two
\* statements, a lock or statement timeout expires): the statement is over.
FailResume(t) ==
  /\ txs[t] # Idle
  /\ txs[t].relation = "resumes"
  /\ txs[t].new.is_active = "true"
  /\ IF ensure_single_active_resume_exception(SqlDeadlock) = "RAISE"
     THEN /\ resumes' = resumes
          /\ sqlstate' = SqlDeadlock
     ELSE /\ resumes' = (resumes \ {txs[t].old}) \cup {txs[t].new}
          /\ sqlstate' = SqlOk
  /\ txs' = [txs EXCEPT ![t] = Idle]
  /\ UNCHANGED <<contacts, votes, profiles, now, listing, request, appvars>>

NextResumesTx ==
  \/ \E t \in Sessions, actor \in Users, user_id \in Users,
        is_active \in Optional(BoolVals) :
       BeginInsertResume(t, actor, user_id, is_active)
  \/ \E t \in Sessions, actor \in Users, id \in ResumeIds, is_active \in BoolVals :
       BeginUpdateResume(t, actor, id, is_active)
  \/ \E t \in Sessions : CommitResume(t)
  \/ \E t \in Sessions : FailResume(t)

SpecResumesTx == Init /\ [][NextResumesTx]_vars

(* ------------------------------ contacts ------------------------------- *)

\* email_contacts rows: two ids, enough for a vote to move from one contact
\* to another and for two rows to tie or differ in the view's order.
ContactIds == {1, 2}

\* is_public as the statements of the application write it; the column is
\* nullable, and NULL is left out of the inputs.
PublicVals == {"true", "false"}

\* email_contacts.is_public boolean DEFAULT true
IsPublicDefault == "true"

\* email_contacts.upvotes integer DEFAULT 0
UpvotesDefault == 0

\* email_contacts.downvotes integer DEFAULT 0
DownvotesDefault == 0

\* Values a statement may give upvotes or downvotes.
CounterVals == 0..MaxCounter

FreshContactIds == ContactIds \ {c.id : c \in contacts}

\* "Users can insert contacts", "Users can update own contacts", "Users can
\* delete own contacts": USING / WITH CHECK (auth.uid() = user_id)
ContactOwnerRls(actor, row) == actor = row.user_id

\* "Anyone can view public contacts" OR "Users can view own private contacts"
ContactSelectRls(actor, row) ==
  \/ row.is_public = "true"
  \/ (actor = row.user_id /\ row.is_public = "false")

\* INSERT INTO email_contacts (user_id, is_public, upvotes, downvotes)
\* VALUES (...); created_at takes DEFAULT now().
InsertContact(actor, user_id, is_public, upvotes, downvotes) ==
  /\ FreshContactIds # {}
  /\ LET id == CHOOSE i \in FreshContactIds : \A j \in FreshContactIds : i <= j
         new == [id |-> id, user_id |-> user_id,
                 is_public |-> Given(is_public, IsPublicDefault),
                 upvotes |-> Given(upvotes, UpvotesDefault),
                 downvotes |-> Given(downvotes, DownvotesDefault),
                 created_at |-> now]
     IN  IF ContactOwnerRls(actor, new)
         THEN /\ contacts' = contacts \cup {new}
              /\ sqlstate' = SqlOk
         ELSE /\ contacts' = contacts
              /\ sqlstate' = SqlRls
  /\ UNCHANGED <<resumes, votes, profiles, now, listing, request, txs, appvars>>

\* UPDATE email_contacts SET <column> = <value> WHERE id = :id.  No trigger
\* is defined on email_contacts.
UpdateContact(actor, id, column, value) ==
  /\ \E old \in contacts :
       /\ old.id = id
       /\ LET new == [old EXCEPT ![column] = value]
          IN  IF ~(ContactOwnerRls(actor, old) /\ ContactSelectRls(actor, old))
              THEN /\ contacts' = contacts
                   /\ sqlstate' = SqlOk
              ELSE IF ~ContactOwnerRls(actor, new)
              THEN /\ contacts' = contacts
                   /\ sqlstate' = SqlRls
              ELSE /\ contacts' = (contacts \ {old}) \cup {new}
                   /\ sqlstate' = SqlOk
  /\ UNCHANGED <<resumes, votes, profiles, now, listing, request, txs, appvars>>

\* DELETE FROM email_contacts WHERE id = :id.  contact_votes.contact_id is
\* ON DELETE CASCADE: the contact's votes go with it, and the vote trigger
\* each of them fires finds no contact row left to update.
DeleteContact(actor, id) ==
  /\ \E old \in contacts :
       /\ old.id = id
       /\ IF ContactOwnerRls(actor, old) /\ ContactSelectRls(actor, old)
          THEN /\ contacts' = contacts \ {old}
               /\ votes' = { v \in votes : v.contact_id # id }
          ELSE /\ contacts' = contacts
               /\ votes' = votes
  /\ sqlstate' = SqlOk
  /\ UNCHANGED <<resumes, profiles, now, listing, request, txs, appvars>>

\* Time passes between two statements: now() of the next one is later.
Tick ==
  /\ now < MaxTime
  /\ now' = now + 1
  /\ UNCHANGED <<resumes, contacts, votes, profiles, sqlstate, listing,
                 request, txs,
               appvars>>

(* ------------------------------- votes --------------------------------- *)

VoteIds == 1..MaxVoteIds

VoteTypes == {"up", "down"}

\* What a statement may give as vote_type: the two the CHECK allows and one
\* it does not.
VoteTypeInputs == VoteTypes \cup {"sideways"}

FreshVoteIds == VoteIds \ {v.id : v \in votes}

\* "Users can insert/update/delete own votes": (auth.uid() = user_id)
VoteRls(actor, row) == actor = row.user_id

\* CHECK (vote_type IN ('up', 'down'))
VoteTypeCheck(row) == row.vote_type \in VoteTypes

VoteUnique_Absent(row, others) == TRUE

VoteUnique_WithType(row, others) ==
  \A v \in others : ~(v.contact_id = row.contact_id /\ v.user_id = row.user_id
                        /\ v.vote_type = row.vote_type)

\* UNIQUE(contact_id, user_id): no other row has the pair of `row`.
VoteUnique(row, others) ==
  \A v \in others : ~(v.contact_id = row.contact_id /\ v.user_id = row.user_id)

\* contact_id REFERENCES email_contacts(id)
VoteContactFk(row) == row.contact_id \in {c.id : c \in contacts}

\* The SQLSTATE of writing `row` next to the rows `others`, as `actor`.
VoteWriteError(actor, row, others) ==
  IF ~VoteRls(actor, row) THEN SqlRls
  ELSE IF ~VoteTypeCheck(row) THEN SqlCheck
  ELSE IF ~VoteUnique(row, others) THEN SqlUnique
  ELSE IF ~VoteContactFk(row) THEN SqlForeignKey
  ELSE SqlOk

\* SELECT COUNT(*) FROM contact_votes WHERE contact_id = .. AND vote_type = ..
CountVotes(table, contact_id, vote_type) ==
  Cardinality({ v \in table : v.contact_id = contact_id /\ v.vote_type = vote_type })

\* NEW.contact_id / OLD.contact_id of a row trigger: NULL (<<>>) when the
\* operation has no NEW row (DELETE) or no OLD row (INSERT).
ContactIdOf(row) == IF row = <<>> THEN <<>> ELSE <<row[1].contact_id>>

COALESCE(a, b) == IF a # <<>> THEN a[1] ELSE b[1]

update_contact_vote_counts_NoWhere(actor, new, old, voteTable, contactTable) ==
  LET target == COALESCE(ContactIdOf(new), ContactIdOf(old))
  IN  { IF ContactOwnerRls(actor, c) /\ ContactSelectRls(actor, c)
        THEN [c EXCEPT !.upvotes = CountVotes(voteTable, target, "up"),
                       !.downvotes = CountVotes(voteTable, target, "down")]
        ELSE c : c \in contactTable }

\* The AFTER INSERT OR UPDATE OR DELETE row trigger: email_contacts after its
\* UPDATE.  The function is not SECURITY DEFINER: its UPDATE runs as the
\* voter and reaches only the rows the email_contacts policies let the voter
\* update.  new and old are <<row>> or <<>>; voteTable is contact_votes after
\* the row operation.
update_contact_vote_counts(actor, new, old, voteTable, contactTable) ==
  LET target == COALESCE(ContactIdOf(new), ContactIdOf(old))
  IN  { IF c.id = target /\ ContactOwnerRls(actor, c) /\ ContactSelectRls(actor, c)
        THEN [c EXCEPT !.upvotes = CountVotes(voteTable, target, "up"),
                       !.downvotes = CountVotes(voteTable, target, "down")]
        ELSE c : c \in contactTable }

\* INSERT INTO contact_votes (contact_id, user_id, vote_type) VALUES (...)
InsertVote(actor, contact_id, user_id, vote_type) ==
  /\ FreshVoteIds # {}
  /\ LET id == CHOOSE i \in FreshVoteIds : \A j \in FreshVoteIds : i <= j
         new == [id |-> id, contact_id |-> contact_id, user_id |-> user_id,
                 vote_type |-> vote_type]
         err == VoteWriteError(actor, new, votes)
     IN  IF err = SqlOk
         THEN /\ votes' = votes \cup {new}
              /\ contacts' = update_contact_vote_counts(actor, <<new>>, <<>>,
                                                        votes \cup {new}, contacts)
              /\ sqlstate' = SqlOk
         ELSE /\ votes' = votes
              /\ contacts' = contacts
              /\ sqlstate' = err
  /\ UNCHANGED <<resumes, profiles, now, listing, request, txs, appvars>>

\* UPDATE contact_votes SET <column> = <value> WHERE id = :id
UpdateVote(actor, id, column, value) ==
  /\ \E old \in votes :
       /\ old.id = id
       /\ LET new == [old EXCEPT ![column] = value]
              err == VoteWriteError(actor, new, votes \ {old})
              after == (votes \ {old}) \cup {new}
          IN  IF ~VoteRls(actor, old)
              THEN /\ votes' = votes
                   /\ contacts' = contacts
                   /\ sqlstate' = SqlOk
              ELSE IF err = SqlOk
              THEN /\ votes' = after
                   /\ contacts' = update_contact_vote_counts(actor, <<new>>, <<old>>,
                                                             after, contacts)
                   /\ sqlstate' = SqlOk
              ELSE /\ votes' = votes
                   /\ contacts' = contacts
                   /\ sqlstate' = err
  /\ UNCHANGED <<resumes, profiles, now, listing, request, txs, appvars>>

\* DELETE FROM contact_votes WHERE id = :id
DeleteVote(actor, id) ==
  /\ \E old \in votes :
       /\ old.id = id
       /\ IF VoteRls(actor, old)
          THEN /\ votes' = votes \ {old}
               /\ contacts' = update_contact_vote_counts(actor, <<>>, <<old>>,
                                                         votes \ {old}, contacts)
          ELSE /\ votes' = votes
               /\ contacts' = contacts
  /\ sqlstate' = SqlOk
  /\ UNCHANGED <<resumes, profiles, now, listing, request, txs, appvars>>

\* Contacts are created as the application creates them (counters and
\* is_public left to their defaults) and voted on.
NextVotes ==
  \/ \E actor \in Users, user_id \in Users :
       InsertContact(actor, user_id, Omitted, Omitted, Omitted)
  \/ \E actor \in Users, id \in ContactIds : DeleteContact(actor, id)
  \/ \E actor \in Users, contact_id \in ContactIds, user_id \in Users,
        vote_type \in VoteTypeInputs :
       InsertVote(actor, contact_id, user_id, vote_type)
  \/ \E actor \in Users, id \in VoteIds, vote_type \in VoteTypeInputs :
       UpdateVote(actor, id, "vote_type", vote_type)
  \/ \E actor \in Users, id \in VoteIds, contact_id \in ContactIds :
       UpdateVote(actor, id, "contact_id", contact_id)
  \/ \E actor \in Users, id \in VoteIds, user_id \in Users :
       UpdateVote(actor, id, "user_id", user_id)
  \/ \E actor \in Users, id \in VoteIds : DeleteVote(actor, id)

SpecVotes == Init /\ [][NextVotes]_vars

(* -------------------- votes: concurrent statements --------------------- *)

\* As for resumes, each vote statement is its own READ COMMITTED
\* transaction.  The two COUNT(*) subqueries of the trigger's UPDATE read
\* the votes committed when that UPDATE starts, and the statement's own
\* row; they are not read again when the UPDATE comes to write the contact.

\* The votes an UPDATE or DELETE in flight in another session has locked.
LockedVotes(t) ==
  { txs[s].old[1].id : s \in { x \in Sessions \ {t} : txs[x] # Idle
                                                  /\ txs[x].relation = "contact_votes"
                                                  /\ txs[x].old # <<>> } }

\* gen_random_uuid(): an id no vote has, committed or in flight.
FreshVoteIdsTx ==
  FreshVoteIds \ { txs[s].new[1].id : s \in { x \in Sessions : txs[x] # Idle
                                                  /\ txs[x].relation = "contact_votes"
                                                  /\ txs[x].new # <<>> } }

\* The statement in flight: its OLD and NEW rows (<<row>> or <<>>) and the
\* contact_votes rows its trigger's subqueries have read.
VoteTx(actor, old, new) ==
  [relation |-> "contact_votes", actor |-> actor, old |-> old, new |-> new,
   seen |-> (votes \ {old[i] : i \in 1..Len(old)}) \cup {new[i] : i \in 1..Len(new)}]

\* INSERT INTO contact_votes up to the trigger's subqueries having read.  An
\* INSERT a policy or constraint refuses ends here.
BeginInsertVote(t, actor, contact_id, user_id, vote_type) ==
  /\ txs[t] = Idle
  /\ FreshVoteIdsTx # {}
  /\ LET id == CHOOSE i \in FreshVoteIdsTx : \A j \in FreshVoteIdsTx : i <= j
         new == [id |-> id, contact_id |-> contact_id, user_id |-> user_id,
                 vote_type |-> vote_type]
         err == VoteWriteError(actor, new, votes)
     IN  IF err = SqlOk
         THEN /\ txs' = [txs EXCEPT ![t] = VoteTx(actor, <<>>, <<new>>)]
              /\ sqlstate' = sqlstate
         ELSE /\ txs' = txs
              /\ sqlstate' = err
  /\ UNCHANGED <<resumes, contacts, votes, profiles, now, listing, request,
               appvars>>

\* UPDATE contact_votes SET vote_type = .. WHERE id = :id up to the
\* trigger's subqueries having read.  The statement waits while another
\* statement in flight holds the row.
BeginUpdateVote(t, actor, id, vote_type) ==
  /\ txs[t] = Idle
  /\ id \notin LockedVotes(t)
  /\ \E old \in votes :
       /\ old.id = id
       /\ LET new == [old EXCEPT !.vote_type = vote_type]
              err == VoteWriteError(actor, new, votes \ {old})
          IN  IF ~VoteRls(actor, old)
              THEN /\ txs' = txs
                   /\ sqlstate' = SqlOk
              ELSE IF err = SqlOk
              THEN /\ txs' = [txs EXCEPT ![t] = VoteTx(actor, <<old>>, <<new>>)]
                   /\ sqlstate' = sqlstate
              ELSE /\ txs' = txs
                   /\ sqlstate' = err
  /\ UNCHANGED <<resumes, contacts, votes, profiles, now, listing, request,
               appvars>>

\* DELETE FROM contact_votes WHERE id = :id up to the trigger's subqueries
\* having read.
BeginDeleteVote(t, actor, id) ==
  /\ txs[t] = Idle
  /\ id \notin LockedVotes(t)
  /\ \E old \in votes :
       /\ old.id = id
       /\ IF VoteRls(actor, old)
          THEN /\ txs' = [txs EXCEPT ![t] = VoteTx(actor, <<old>>, <<>>)]
               /\ sqlstate' = sqlstate
          ELSE /\ txs' = txs
               /\ sqlstate' = SqlOk
  /\ UNCHANGED <<resumes, contacts, votes, profiles, now, listing, request,
               appvars>>

\* The rest of the statement and its commit: the trigger's UPDATE writes
\* the counts its subqueries read onto the contact as it is now.  An INSERT
\* whose pair another statement has committed meanwhile fails on the UNIQUE
\* constraint.
CommitVote(t) ==
  /\ txs[t] # Idle
  /\ txs[t].relation = "contact_votes"
  /\ LET tx == txs[t]
         olds == {tx.old[i] : i \in 1..Len(tx.old)}
         news == {tx.new[i] : i \in 1..Len(tx.new)}
     IN  IF \A row \in news : VoteUnique(row, votes \ olds)
         THEN /\ votes' = (votes \ olds) \cup news
              /\ contacts' = update_contact_vote_counts(tx.actor, tx.new, tx.old,
                                                        tx.seen, contacts)
              /\ sqlstate' = SqlOk
         ELSE /\ votes' = votes
              /\ contacts' = contacts
              /\ sqlstate' = SqlUnique
  /\ txs' = [txs EXCEPT ![t] = Idle]
  /\ UNCHANGED <<resumes, profiles, now, listing, request, appvars>>

\* Contacts are created as the application creates them; each user votes in
\* the user's own name with a vote_type the CHECK allows.
NextVotesTx ==
  \/ \E actor \in Users, user_id \in Users :
       InsertContact(actor, user_id, Omitted, Omitted, Omitted)
  \/ \E t \in Sessions, actor \in Users, contact_id \in ContactIds,
        vote_type \in VoteTypes :
       BeginInsertVote(t, actor, contact_id, actor, vote_type)
  \/ \E t \in Sessions, actor \in Users, id \in VoteIds, vote_type \in VoteTypes :
       BeginUpdateVote(t, actor, id, vote_type)
  \/ \E t \in Sessions, actor \in Users, id \in VoteIds :
       BeginDeleteVote(t, actor, id)
  \/ \E t \in Sessions : CommitVote(t)

SpecVotesTx == Init /\ [][NextVotesTx]_vars

(* ------------------------- public_contacts_view ------------------------ *)

\* (ec.upvotes - ec.downvotes) as score
Score(c) == c.upvotes - c.downvotes

\* The view's SELECT list, as far as the columns modelled go.
ViewRow(c) == [id |-> c.id, upvotes |-> c.upvotes, downvotes |-> c.downvotes,
               created_at |-> c.created_at, score |-> Score(c)]

OrderByPrecedes_OldestFirst(a, b) ==
  \/ a.score > b.score
  \/ (a.score = b.score /\ a.created_at < b.created_at)

\* ORDER BY (ec.upvotes - ec.downvotes) DESC, ec.created_at DESC: a sorts
\* strictly before b.
OrderByPrecedes(a, b) ==
  \/ a.score > b.score
  \/ (a.score = b.score /\ a.created_at > b.created_at)

\* Every order the sort may return the rows S in: rows equal on both keys
\* come in either order.
RECURSIVE OrderBy(_)
OrderBy(S) ==
  IF S = {} THEN {<<>>}
  ELSE UNION { { <<r>> \o t : t \in OrderBy(S \ {r}) } :
               r \in { x \in S : \A y \in S : ~OrderByPrecedes(y, x) } }

public_contacts_view_Unfiltered == OrderBy({ ViewRow(c) : c \in contacts })

\* SELECT * FROM public_contacts_view: the possible results.  The LEFT JOIN
\* to user_profiles adds contributor_name and, user_profiles.user_id being
\* UNIQUE, no row.
public_contacts_view ==
  OrderBy({ ViewRow(c) : c \in { ec \in contacts : ec.is_public = "true" } })

\* SELECT * FROM public_contacts_view
ReadView ==
  /\ listing' \in public_contacts_view
  /\ UNCHANGED <<resumes, contacts, votes, profiles, now, sqlstate,
                 request, txs,
               appvars>>

\* Contacts are written by their owners with any column values, and time
\* passes.
NextContacts ==
  \/ \E actor \in Users, user_id \in Users, is_public \in Optional(PublicVals),
        upvotes \in Optional(CounterVals), downvotes \in Optional(CounterVals) :
       InsertContact(actor, user_id, is_public, upvotes, downvotes)
  \/ \E actor \in Users, id \in ContactIds, is_public \in PublicVals :
       UpdateContact(actor, id, "is_public", is_public)
  \/ \E actor \in Users, id \in ContactIds, upvotes \in CounterVals :
       UpdateContact(actor, id, "upvotes", upvotes)
  \/ \E actor \in Users, id \in ContactIds, downvotes \in CounterVals :
       UpdateContact(actor, id, "downvotes", downvotes)
  \/ \E actor \in Users, id \in ContactIds, user_id \in Users :
       UpdateContact(actor, id, "user_id", user_id)
  \/ \E actor \in Users, id \in ContactIds : DeleteContact(actor, id)
  \/ Tick
  \/ ReadView

SpecContacts == Init /\ [][NextContacts]_vars

(* ---------------------------- user_profiles ---------------------------- *)

\* SQL NULL of a nullable column; a non-null value v is <<v>>.
Null == <<>>

\* The columns calculate_profile_completeness reads, in the order it reads
\* them.
TrackedColumns ==
  << "full_name", "phone", "linkedin_url", "bio", "target_position",
     "target_industry", "profile_picture_url", "github_url", "portfolio_url",
     "years_of_experience", "education_level", "preferred_locations",
     "availability_date", "salary_expectation", "email_signature" >>

TrackedSet == { TrackedColumns[i] : i \in 1..Len(TrackedColumns) }

TextColumns ==
  { "full_name", "phone", "linkedin_url", "bio", "target_position",
    "target_industry", "profile_picture_url", "github_url", "portfolio_url",
    "salary_expectation", "email_signature" }

\* Two of the columns the function does not read: twitter_url, without a
\* DEFAULT, and timezone, with one.  preferred_work_type,
\* notification_preferences, is_profile_public and language_preference are
\* columns like timezone and are left out.
UntrackedColumns == {"twitter_url", "timezone"}

ProfileColumns == TrackedSet \cup UntrackedColumns

\* The DEFAULT of each column: '' for the six columns of CREATE TABLE, 0 for
\* years_of_experience, the empty array for preferred_locations, 'UTC' for
\* timezone, and NULL for the columns declared without one.
ProfileDefault(column) ==
  CASE column \in { "full_name", "phone", "linkedin_url", "bio",
                    "target_position", "target_industry" } -> <<"">>
    [] column = "years_of_experience" -> <<0>>
    [] column = "preferred_locations" -> << <<>> >>
    [] column = "timezone" -> <<"UTC">>
    [] OTHER -> Null

\* profile_completeness integer DEFAULT 0
CompletenessDefault == 0

\* CHECK (education_level IN (...)); a NULL passes a CHECK.
EducationCheck(row) ==
  \/ row.education_level = Null
  \/ row.education_level[1] \in { "high_school", "associate", "bachelor",
                                   "master", "phd", "other" }

\* CHECK (profile_completeness >= 0 AND profile_completeness <= 100)
CompletenessCheck(row) ==
  row.profile_completeness >= 0 /\ row.profile_completeness <= 100

\* user_id uuid NOT NULL UNIQUE
ProfileUnique(row, others) == \A p \in others : p.user_id # row.user_id

\* "Users can insert own profile", "Users can update own profile"
ProfileRls(actor, row) == actor = row.user_id

TextCounts_NullOnly(v) == v # Null

\* NEW.<text column> IS NOT NULL AND NEW.<text column> != ''
TextCounts(v) == v # Null /\ v[1] # ""

\* array_length(a, 1): NULL for an array without elements.
array_length(a) == IF Len(a) = 0 THEN Null ELSE <<Len(a)>>

\* total_fields integer := 15
total_fields == 15

Percentage_Rounded(completeness) ==
  (2 * completeness * 100 + total_fields) \div (2 * total_fields)

\* (completeness * 100) / total_fields, on integers
Percentage(completeness) == (completeness * 100) \div total_fields

CountedFields_YearsNotNull(new) ==
    Cardinality({ c \in TextColumns : TextCounts(new[c]) })
  + (IF new.years_of_experience # Null THEN 1 ELSE 0)
  + (IF new.education_level # Null THEN 1 ELSE 0)
  + (IF new.preferred_locations # Null
        /\ array_length(new.preferred_locations[1]) # Null
        /\ array_length(new.preferred_locations[1])[1] > 0
     THEN 1 ELSE 0)
  + (IF new.availability_date # Null THEN 1 ELSE 0)

\* The number of fields the function has counted when it reaches the
\* percentage: one IF per field, each adding 1.
CountedFields(new) ==
    (IF TextCounts(new.full_name) THEN 1 ELSE 0)
  + (IF TextCounts(new.phone) THEN 1 ELSE 0)
  + (IF TextCounts(new.linkedin_url) THEN 1 ELSE 0)
  + (IF TextCounts(new.bio) THEN 1 ELSE 0)
  + (IF TextCounts(new.target_position) THEN 1 ELSE 0)
  + (IF TextCounts(new.target_industry) THEN 1 ELSE 0)
  + (IF TextCounts(new.profile_picture_url) THEN 1 ELSE 0)
  + (IF TextCounts(new.github_url) THEN 1 ELSE 0)
  + (IF TextCounts(new.portfolio_url) THEN 1 ELSE 0)
  + (IF new.years_of_experience # Null /\ new.years_of_experience[1] > 0
     THEN 1 ELSE 0)
  + (IF new.education_level # Null THEN 1 ELSE 0)
  + (IF new.preferred_locations # Null
        /\ array_length(new.preferred_locations[1]) # Null
        /\ array_length(new.preferred_locations[1])[1] > 0
     THEN 1 ELSE 0)
  + (IF new.availability_date # Null THEN 1 ELSE 0)
  + (IF TextCounts(new.salary_expectation) THEN 1 ELSE 0)
  + (IF TextCounts(new.email_signature) THEN 1 ELSE 0)

calculate_profile_completeness_KeepsSupplied(new) == new

calculate_profile_completeness_CountsTwitter(new) ==
  [new EXCEPT !.profile_completeness =
     Percentage(CountedFields(new) + (IF TextCounts(new.twitter_url) THEN 1 ELSE 0))]

\* The BEFORE INSERT OR UPDATE row trigger: the row it returns.
calculate_profile_completeness(new) ==
  [new EXCEPT !.profile_completeness = Percentage(CountedFields(new))]

\* The SQLSTATE of storing `row` next to the rows `others`, as `actor`.
ProfileWriteError(actor, row, others) ==
  IF ~ProfileRls(actor, row) THEN SqlRls
  ELSE IF ~(EducationCheck(row) /\ CompletenessCheck(row)) THEN SqlCheck
  ELSE IF ~ProfileUnique(row, others) THEN SqlUnique
  ELSE SqlOk

\* The value a statement gives a column: input names some of the columns
\* and gives each a value or leaves it out (<<>>).
ColumnGiven(input, column, otherwise) ==
  IF column \in DOMAIN input THEN Given(input[column], otherwise) ELSE otherwise

\* INSERT INTO user_profiles (user_id, <columns>, profile_completeness)
\* VALUES (...)
InsertProfile(actor, user_id, input, completeness) ==
  /\ LET given == [c \in ProfileColumns |-> ColumnGiven(input, c, ProfileDefault(c))]
         new == [c \in ProfileColumns \cup {"user_id", "profile_completeness"} |->
                   CASE c = "user_id" -> user_id
                     [] c = "profile_completeness" ->
                          Given(completeness, CompletenessDefault)
                     [] OTHER -> given[c]]
         row == calculate_profile_completeness(new)
         err == ProfileWriteError(actor, row, profiles)
     IN  /\ profiles' = IF err = SqlOk THEN profiles \cup {row} ELSE profiles
         /\ sqlstate' = err
         /\ request' = [user_id |-> user_id, completeness |-> completeness,
                        rows |-> IF err = SqlOk THEN 1 ELSE 0]
  /\ UNCHANGED <<resumes, contacts, votes, now, listing, txs, appvars>>

\* UPDATE user_profiles SET <columns> WHERE user_id = :user_id, the one row a
\* user has.  A row the caller does not own is filtered out by USING.
UpdateProfile(actor, user_id, input, completeness) ==
  /\ \E old \in profiles :
       /\ old.user_id = user_id
       /\ LET new == [c \in DOMAIN old |->
                        CASE c = "user_id" -> old.user_id
                          [] c = "profile_completeness" ->
                               Given(completeness, old.profile_completeness)
                          [] OTHER -> ColumnGiven(input, c, old[c])]
              row == calculate_profile_completeness(new)
              err == ProfileWriteError(actor, row, profiles \ {old})
              written == ProfileRls(actor, old) /\ err = SqlOk
          IN  /\ profiles' = IF written THEN (profiles \ {old}) \cup {row}
                             ELSE profiles
              /\ sqlstate' = IF ProfileRls(actor, old) THEN err ELSE SqlOk
              /\ request' = [user_id |-> user_id, completeness |-> completeness,
                             rows |-> IF written THEN 1 ELSE 0]
  /\ UNCHANGED <<resumes, contacts, votes, now, listing, txs, appvars>>

\* The inputs of the profile statements.  A statement fills the first k
\* tracked columns and gives every other one the same value: NULL, the empty
\* value ('' / 0 / '{}') or a blank one (' ' / -1); or it leaves every
\* tracked column out.
FilledValue(column) ==
  CASE column \in TextColumns -> <<"a">>
    [] column = "years_of_experience" -> <<MaxYears>>
    [] column = "education_level" -> <<"bachelor">>
    [] column = "preferred_locations" -> << <<"Paris">> >>
    [] column = "availability_date" -> <<"2026-01-01">>

UnfilledKinds == {"null", "empty", "blank"}

UnfilledValue(column, kind) ==
  CASE kind = "null" \/ column \in {"education_level", "availability_date"} -> Null
    [] column \in TextColumns -> IF kind = "empty" THEN <<"">> ELSE <<" ">>
    [] column = "years_of_experience" -> IF kind = "empty" THEN <<0>> ELSE <<-1>>
    [] column = "preferred_locations" -> << <<>> >>

ProfileInput(k, kind) ==
  [c \in TrackedSet |->
     IF \E i \in 1..k : TrackedColumns[i] = c
     THEN <<FilledValue(c)>> ELSE <<UnfilledValue(c, kind)>>]

\* The prefixes tried with each unfilled value; the others leave the rest
\* NULL.
MixedPrefixes == {0, 9}

ProfileInputs ==
  { [c \in TrackedSet |-> Omitted] }
    \cup { ProfileInput(k, "null") : k \in 0..Len(TrackedColumns) }
    \cup { ProfileInput(k, kind) : k \in MixedPrefixes, kind \in UnfilledKinds }

\* What a statement may give as profile_completeness.
CompletenessInputs == {40, 999}

NextProfiles ==
  \/ \E actor \in Users, user_id \in Users, input \in ProfileInputs,
        completeness \in Optional(CompletenessInputs) :
       InsertProfile(actor, user_id, input, completeness)
  \/ \E actor \in Users, user_id \in Users, input \in ProfileInputs,
        completeness \in Optional(CompletenessInputs) :
       UpdateProfile(actor, user_id, input, completeness)

SpecProfiles == Init /\ [][NextProfiles]_vars

\* Statements that write the untracked columns only: UPDATE user_profiles
\* SET twitter_url = .. and / or timezone = ..
UntrackedInputs ==
  { [c \in {"twitter_url"} |-> <<Null>>],
    [c \in {"twitter_url"} |-> << <<"@a">> >>],
    [c \in {"timezone"} |-> << <<"CET">> >>],
    [c \in UntrackedColumns |-> IF c = "timezone" THEN << <<"UTC">> >>
                                                  ELSE << <<"@a">> >>] }

\* The tracked inputs the profiles of this specification are made of.
FrameInputs ==
  { [c \in TrackedSet |-> Omitted],
    ProfileInput(0, "blank"), ProfileInput(9, "null"),
    ProfileInput(Len(TrackedColumns), "null") }

\* Profiles are written, and their untracked columns rewritten.
NextProfilesFrame ==
  \/ \E actor \in Users, user_id \in Users, input \in FrameInputs :
       InsertProfile(actor, user_id, input, Omitted)
  \/ \E actor \in Users, user_id \in Users, input \in FrameInputs :
       UpdateProfile(actor, user_id, input, Omitted)
  \/ \E actor \in Users, user_id \in Users, input \in UntrackedInputs,
        completeness \in Optional(CompletenessInputs) :
       UpdateProfile(actor, user_id, input, completeness)

SpecProfilesFrame == Init /\ [][NextProfilesFrame]_vars

(* The view read over tables of three contacts whose counters and creation *)
(* times are drawn from small sets: states the votes of five users, or the *)
(* owner's own writes of the counters, lead to.                            *)

RankingIds == {1, 2, 3}

RankingUpvotes == {3, 5}

RankingDownvotes == {0, 1, 2}

RankingTimes == {1, 2, 3}

InitRanking ==
  /\ resumes = {}
  /\ \E up \in [RankingIds -> RankingUpvotes],
        down \in [RankingIds -> RankingDownvotes],
        at \in [RankingIds -> RankingTimes] :
       contacts = { [id |-> i, user_id |-> 1, is_public |-> "true",
                     upvotes |-> up[i], downvotes |-> down[i],
                     created_at |-> at[i]] : i \in RankingIds }
  /\ votes = {}
  /\ profiles = {}
  /\ now = 0
  /\ sqlstate = SqlOk
  /\ listing = <<>>
  /\ request = <<>>
  /\ txs = [t \in Sessions |-> Idle]
  /\ InitApp

NextRanking ==
  \/ \E actor \in Users, id \in RankingIds, is_public \in PublicVals :
       UpdateContact(actor, id, "is_public", is_public)
  \/ ReadView

SpecRanking == InitRanking /\ [][NextRanking]_vars

(* ---------------------------- applications ----------------------------- *)

ApplicationIds == 1..MaxApplications

\* gen_random_uuid(): an id no row of the table has.
FreshApplicationIds == ApplicationIds \ { a.id : a \in applications }

\* .maybeSingle(): the row when the query finds exactly one; data is null
\* when it finds none, and when it finds several (the error that comes with
\* them is not read by the caller).
maybeSingle(rows) ==
  IF Cardinality(rows) = 1 THEN << CHOOSE r \in rows : TRUE >> ELSE <<>>

\* from("resumes").select("skills, education, experience, projects")
\*   .eq("user_id", user.id), run with the service role key, which no policy
\* filters.
ResumeQuery(user) == { r \in resumes : r.user_id = user }

\* The skills, education, experience and projects columns of a resume row,
\* which are the row's own: they stand as the row's id.
ResumeContent(r) == <<r.id>>

\* resume?.skills || [] and the like: the content the message is composed
\* of, empty when the query gave no row.
userInfo(resume) == IF resume = <<>> THEN <<>> ELSE ResumeContent(resume[1])

\* The generate-personalized-message function called by `user`: it reads the
\* user's resume, composes subject and body from it and inserts them as a
\* draft application.  email_body stands as the resume content it is made of.
GenerateMessage(user) ==
  /\ FreshApplicationIds # {}
  /\ LET id == CHOOSE i \in FreshApplicationIds : \A j \in FreshApplicationIds : i <= j
         resume == maybeSingle(ResumeQuery(user))
     IN  applications' = applications \cup
           { [id |-> id, user_id |-> user, post_id |-> <<>>,
              email_body |-> userInfo(resume), status |-> "draft"] }
  /\ UNCHANGED <<resumes, contacts, votes, profiles, now, sqlstate, listing,
                 request, txs, outbox, displayed, sendingId, sending, results,
                 generating, batch>>

\* Resumes are uploaded, activated and deleted by their owners, and messages
\* composed.
NextCompose ==
  \/ \E user \in Users, is_active \in Optional(BoolVals) :
       InsertResume(user, user, is_active, Omitted)
  \/ \E user \in Users, id \in ResumeIds, is_active \in BoolVals :
       UpdateResume(user, id, <<is_active>>, Omitted)
  \/ \E user \in Users, id \in ResumeIds : DeleteResume(user, id)
  \/ \E user \in Users : GenerateMessage(user)

SpecCompose == Init /\ [][NextCompose]_vars

\* Policies "Users can ... own applications": USING / WITH CHECK
\* (auth.uid() = user_id)
ApplicationRls(actor, row) == actor = row.user_id

\* fetchApplications: the rows of the signed-in user, as the component then
\* lists them.
fetchApplications(user, table) ==
  { a \in table : a.user_id = user /\ ApplicationRls(user, a) }

\* The component mounts or its filter changes: useEffect calls
\* fetchApplications.
FetchApplications(user) ==
  /\ displayed' = fetchApplications(user, applications)
  /\ UNCHANGED <<resumes, contacts, votes, profiles, now, sqlstate, listing,
                 request, txs, applications, outbox, sendingId, sending,
                 results, generating, batch>>

\* from('applications').update({ status: .. }).eq('id', :id) by `user`: the
\* table after it.
UpdateStatus(user, id, status) ==
  { IF a.id = id /\ ApplicationRls(user, a)
    THEN [a EXCEPT !.status = status] ELSE a : a \in applications }

\* The Send button of a listed row, shown for status 'draft' or 'failed' and
\* disabled while sendingId is the row's id, is clicked and the dialog
\* confirmed: handleSendEmail runs up to its fetch of the send endpoint.
\* One call per application is followed at a time.
SendClick(app) ==
  /\ app \in displayed
  /\ app.status \in {"draft", "failed"}
  /\ sendingId # <<app.id>>
  /\ sending[app.id] = Idle
  /\ sendingId' = <<app.id>>
  /\ sending' = [sending EXCEPT ![app.id] = [pc |-> "fetch", user |-> app.user_id]]
  /\ UNCHANGED <<resumes, contacts, votes, profiles, now, sqlstate, listing,
                 request, txs, applications, outbox, displayed, results,
                 generating, batch>>

\* What the call reads back from the send endpoint: a response with an ok
\* status and a JSON body, for an email the endpoint accepted, or anything
\* that makes the handler throw (no token, a status that is not ok, a body
\* that is not JSON), for an email it did not accept.
SendResponses == {"ok", "error"}

\* The await of the endpoint's response ends.
SendResponse(id, response) ==
  /\ sending[id] # Idle
  /\ sending[id].pc = "fetch"
  /\ outbox' = IF response = "ok" THEN outbox \cup {id} ELSE outbox
  /\ sending' = [sending EXCEPT ![id].pc =
                   IF response = "ok" THEN "sent" ELSE "failed"]
  /\ UNCHANGED <<resumes, contacts, votes, profiles, now, sqlstate, listing,
                 request, txs, applications, displayed, sendingId, results,
                 generating, batch>>

\* The update to status 'sent' returns.  With updateError the handler throws
\* and goes on in its catch block.
MarkSent(id, updateError) ==
  /\ sending[id] # Idle
  /\ sending[id].pc = "sent"
  /\ IF updateError
     THEN /\ applications' = applications
          /\ sending' = [sending EXCEPT ![id].pc = "failed"]
     ELSE /\ applications' = UpdateStatus(sending[id].user, id, "sent")
          /\ sending' = [sending EXCEPT ![id].pc = "fetched"]
  /\ UNCHANGED <<resumes, contacts, votes, profiles, now, sqlstate, listing,
                 request, txs, outbox, displayed, sendingId, results,
                 generating, batch>>

\* The catch block's update to status 'failed' returns; its error is not
\* read.
MarkFailed(id, updateError) ==
  /\ sending[id] # Idle
  /\ sending[id].pc = "failed"
  /\ applications' = IF updateError THEN applications
                     ELSE UpdateStatus(sending[id].user, id, "failed")
  /\ sending' = [sending EXCEPT ![id].pc = "fetched"]
  /\ UNCHANGED <<resumes, contacts, votes, profiles, now, sqlstate, listing,
                 request, txs, outbox, displayed, sendingId, results,
                 generating, batch>>

\* await fetchApplications() returns and the finally block clears sendingId.
SendDone(id) ==
  /\ sending[id] # Idle
  /\ sending[id].pc = "fetched"
  /\ displayed' = fetchApplications(sending[id].user, applications)
  /\ sendingId' = <<>>
  /\ sending' = [sending EXCEPT ![id] = Idle]
  /\ UNCHANGED <<resumes, contacts, votes, profiles, now, sqlstate, listing,
                 request, txs, applications, outbox, results, generating,
                 batch>>

\* Drafts are composed, listed and sent.
NextSend ==
  \/ \E user \in Users : GenerateMessage(user)
  \/ \E user \in Users : FetchApplications(user)
  \/ \E app \in displayed : SendClick(app)
  \/ \E id \in ApplicationIds, response \in SendResponses : SendResponse(id, response)
  \/ \E id \in ApplicationIds, updateError \in BOOLEAN : MarkSent(id, updateError)
  \/ \E id \in ApplicationIds, updateError \in BOOLEAN : MarkFailed(id, updateError)
  \/ \E id \in ApplicationIds : SendDone(id)

SpecSend == Init /\ [][NextSend]_vars

(* -------------------------- batch generation --------------------------- *)

\* post.contact_email || post.extracted_emails[0] || '': an address, or ''
\* for a post that has none.
RecipientEmails == {"", "hr@corp"}

\* The posts a modal can be opened with: up to MaxPosts posts, the i-th with
\* id i.
PostLists ==
  UNION { [1..n -> RecipientEmails] : n \in 1..MaxPosts }

\* isComplete
isComplete == \A i \in DOMAIN results : results[i].status \in {"success", "error"}

\* The modal is mounted with `posts`: useState gives every post a pending
\* result.  The ids left suffice for the drafts of the posts.
OpenBatchModal(posts) ==
  /\ results = <<>>
  /\ batch = Idle
  /\ Cardinality(FreshApplicationIds) >= Len(posts)
  /\ results' = [i \in DOMAIN posts |->
                   [postId |-> i, status |-> "pending", recipientEmail |-> posts[i]]]
  /\ UNCHANGED <<resumes, contacts, votes, profiles, now, sqlstate, listing,
                 request, txs, applications, outbox, displayed, sendingId,
                 sending, generating, batch>>

\* The results once result i has been given `status`, together with what the
\* loop does next without awaiting: after an error, or after the last post,
\* it goes on to the next iteration or sets generating to false; after a
\* success on another post it awaits the delay.
Settled(i, status) ==
  LET settled == [results EXCEPT ![i].status = status]
  IN  IF i = Len(results)
      THEN /\ results' = settled
           /\ generating' = FALSE
           /\ batch' = Idle
      ELSE IF status = "error"
      THEN /\ results' = [settled EXCEPT ![i + 1].status = "generating"]
           /\ generating' = generating
           /\ batch' = [batch EXCEPT !.i = i + 1, !.pc = "invoke"]
      ELSE /\ results' = settled
           /\ generating' = generating
           /\ batch' = [batch EXCEPT !.pc = "delay"]

\* Start Generation, shown while !generating && !isComplete, is clicked:
\* generateAllMessages runs up to its first await.
StartGeneration(user) ==
  /\ results # <<>>
  /\ ~generating
  /\ ~isComplete
  /\ batch = Idle
  /\ generating' = TRUE
  /\ results' = [results EXCEPT ![1].status = "generating"]
  /\ batch' = [i |-> 1, pc |-> "invoke", user |-> user]
  /\ UNCHANGED <<resumes, contacts, votes, profiles, now, sqlstate, listing,
                 request, txs, applications, outbox, displayed, sendingId,
                 sending>>

\* supabase.functions.invoke('generate-application-email') returns: with
\* error or data.error the catch block marks the post, with data the post
\* is saved if it has a recipient and is marked a success if it has none.
InvokeReturns(error) ==
  /\ batch # Idle
  /\ batch.pc = "invoke"
  /\ IF error
     THEN Settled(batch.i, "error")
     ELSE IF results[batch.i].recipientEmail # ""
     THEN /\ batch' = [batch EXCEPT !.pc = "insert"]
          /\ UNCHANGED <<results, generating>>
     ELSE Settled(batch.i, "success")
  /\ UNCHANGED <<resumes, contacts, votes, profiles, now, sqlstate, listing,
                 request, txs, applications, outbox, displayed, sendingId,
                 sending>>

\* await supabase.from('applications').insert({..., status: 'draft'})
\* returns; what it returns is not read.
InsertReturns(insertError) ==
  /\ batch # Idle
  /\ batch.pc = "insert"
  /\ FreshApplicationIds # {}
  /\ LET id == CHOOSE i \in FreshApplicationIds : \A j \in FreshApplicationIds : i <= j
     IN  applications' =
           IF insertError THEN applications
           ELSE applications \cup
                  { [id |-> id, user_id |-> batch.user,
                     post_id |-> <<results[batch.i].postId>>,
                     email_body |-> <<>>, status |-> "draft"] }
  /\ Settled(batch.i, "success")
  /\ UNCHANGED <<resumes, contacts, votes, profiles, now, sqlstate, listing,
                 request, txs, outbox, displayed, sendingId, sending>>

\* The delay between two requests is over: the next iteration marks its post.
DelayElapsed ==
  /\ batch # Idle
  /\ batch.pc = "delay"
  /\ results' = [results EXCEPT ![batch.i + 1].status = "generating"]
  /\ batch' = [batch EXCEPT !.i = batch.i + 1, !.pc = "invoke"]
  /\ UNCHANGED <<resumes, contacts, votes, profiles, now, sqlstate, listing,
                 request, txs, applications, outbox, displayed, sendingId,
                 sending, generating>>

\* Close, or Cancel, which is disabled while generating: the modal is
\* unmounted.
CloseBatchModal ==
  /\ results # <<>>
  /\ ~generating
  /\ batch = Idle
  /\ results' = <<>>
  /\ UNCHANGED <<resumes, contacts, votes, profiles, now, sqlstate, listing,
                 request, txs, applications, outbox, displayed, sendingId,
                 sending, generating, batch>>

NextBatch ==
  \/ \E posts \in PostLists : OpenBatchModal(posts)
  \/ \E user \in Users : StartGeneration(user)
  \/ \E error \in BOOLEAN : InvokeReturns(error)
  \/ \E insertError \in BOOLEAN : InsertReturns(insertError)
  \/ DelayElapsed
  \/ CloseBatchModal

SpecBatch == Init /\ [][NextBatch]_vars

(* ------------------------------- claims -------------------------------- *)

\* C1: starting from an empty resumes table, after every completed Resume
\* insert or update (any owner, any supplied is_active, the column default
\* included) each owner has at most one Resume with is_active = true.
C1_SingleActive ==
  \A u \in Users : Cardinality(ActiveResumes(u)) <= 1

\* An owner with two resumes, the later one active and the earlier one not.
C1_Witness ==
  \E a, b \in resumes :
    /\ a.user_id = b.user_id
    /\ a.id < b.id
    /\ a.is_active = "false"
    /\ b.is_active = "true"
    /\ sqlstate = SqlOk

\* C2 as stated: every user who owns at least one Resume has exactly one
\* Resume with is_active = true.
C2_ExactlyOneActive ==
  \A u \in Users :
    OwnedResumes(u) # {} => Cardinality(ActiveResumes(u)) = 1

\* The statements written against the resume `id` that can end its being
\* active: its deletion, and an update giving it an is_active other than true.
C2_EndsActive(id) ==
  \/ \E actor \in Users : DeleteResume(actor, id)
  \/ \E actor \in Users, is_active \in {<<"false">>, <<"null">>},
        resume_name \in Optional(ResumeNames) :
       UpdateResume(actor, id, is_active, resume_name)

\* C2 as amended: after any Resume insert, update or delete every user has at
\* most one active Resume; a user's one active Resume is lost (leaving the
\* user with none) only by a statement written against that Resume itself,
\* never as the side effect of a write to another row.
C2_AtMostOneLostOnlyByOwnWrite ==
  [][\A u \in Users :
       /\ Cardinality(ActiveResumes(u)') <= 1
       /\ (Cardinality(ActiveResumes(u)) = 1 /\ ActiveResumes(u)' = {})
            => \E r \in ActiveResumes(u) : C2_EndsActive(r.id)]_vars

\* A user who owns two resumes, none of them active.
C2_Witness ==
  \E u \in Users :
    /\ Cardinality(OwnedResumes(u)) = 2
    /\ ActiveResumes(u) = {}

\* C3: for every Contact, after every completed Vote insert, update or
\* delete, upvotes is the number of its Vote rows of type 'up' and downvotes
\* the number of those of type 'down'.
C3_CountersEqualLiveCounts ==
  \A c \in contacts :
    /\ c.upvotes = CountVotes(votes, c.id, "up")
    /\ c.downvotes = CountVotes(votes, c.id, "down")

\* C4: under SpecProfiles every stored profile's profile_completeness is the
\* integer floor(n * 100 / 15), n being the number of tracked fields the
\* scoring function counts for that row; it lies in 0..100, and is 0 for
\* n = 0, 6 for n = 1 and 100 for n = 15.
C4_CompletenessIsFloorOfCounted ==
  \A p \in profiles :
    LET n == CountedFields(p)
        pc == p.profile_completeness
    IN  /\ pc \in 0..100
        /\ 15 * pc <= n * 100 /\ n * 100 < 15 * (pc + 1)
        /\ (n = 0 => pc = 0) /\ (n = 1 => pc = 6) /\ (n = 15 => pc = 100)

\* One stored profile with a single counted field at 6 next to one with all
\* fifteen at 100.
C4_Witness ==
  /\ \E p \in profiles : CountedFields(p) = 1 /\ p.profile_completeness = 6
  /\ \E p \in profiles : CountedFields(p) = 15 /\ p.profile_completeness = 100

\* A tracked field is filled when it is non-null and non-empty: a string
\* other than '', a number above zero, an array with an element, any other
\* non-null value.
C5_Filled(p) ==
  Cardinality({ c \in TrackedSet :
    /\ p[c] # Null
    /\ c \in TextColumns => p[c][1] # ""
    /\ c = "years_of_experience" => p[c][1] > 0
    /\ c = "preferred_locations" => Len(p[c][1]) >= 1 })

\* C5 as stated: every stored profile's profile_completeness is
\* 100 * filled / 15 rounded to the nearest integer.
C5_CompletenessIsRounded ==
  \A p \in profiles :
    30 * p.profile_completeness - 200 * C5_Filled(p) \in -15..15

\* C5: every stored profile's profile_completeness is 100 * filled / 15
\* rounded down, filled being the number of tracked fields that are non-null
\* and non-empty.
C5_CompletenessIsFloored ==
  \A p \in profiles :
    15 * p.profile_completeness - 100 * C5_Filled(p) \in -14..0

\* A stored profile with four filled fields at 26, where rounding to the
\* nearest gives 27.
C5_Witness ==
  \E p \in profiles : C5_Filled(p) = 4 /\ p.profile_completeness = 26

\* C6: under SpecProfiles a statement that gives profile_completeness a value
\* is never rejected by the range CHECK, and the row it writes stores the
\* percentage computed from the row's fields, not the value given.
C6_SuppliedCompletenessOverwritten ==
  (request # <<>> /\ request.completeness # Omitted) =>
    /\ sqlstate # SqlCheck
    /\ request.rows = 1 =>
         \E p \in profiles :
           /\ p.user_id = request.user_id
           /\ p.profile_completeness = (CountedFields(p) * 100) \div 15

\* A statement giving 999 has written a row, which stores 60.
C6_Witness ==
  /\ request # <<>>
  /\ request.completeness = <<999>>
  /\ request.rows = 1
  /\ sqlstate = SqlOk
  /\ \E p \in profiles :
       p.user_id = request.user_id /\ p.profile_completeness = 60

\* C7: in every reachable state there is at most one Vote row per
\* (contact_id, user_id) pair, whatever Vote inserts, updates (of contact_id
\* or user_id included) and deletes are applied.
C7_OneVotePerPair ==
  \A v, w \in votes :
    (v.contact_id = w.contact_id /\ v.user_id = w.user_id) => v = w

\* Two votes stand, and the last statement, which would have given both the
\* same pair, was refused.
C7_Witness ==
  /\ Cardinality(votes) = 2
  /\ sqlstate = SqlUnique

\* C8: a Vote insert for a (contact, voter) pair that already has a Vote is
\* rejected, and leaves the Vote rows and the contacts (their counters
\* included) as they were.
C8_DuplicateInsertRejected ==
  [][\A actor \in Users, contact_id \in ContactIds, user_id \in Users,
        vote_type \in VoteTypeInputs :
       ( /\ InsertVote(actor, contact_id, user_id, vote_type)
         /\ \E v \in votes : v.contact_id = contact_id /\ v.user_id = user_id )
       => /\ sqlstate' # SqlOk
          /\ (actor = user_id /\ vote_type \in VoteTypes) => sqlstate' = SqlUnique
          /\ votes' = votes
          /\ contacts' = contacts]_vars

\* One vote stands, counted on its contact, and a second insert for its pair
\* was refused.
C8_Witness ==
  /\ Cardinality(votes) = 1
  /\ sqlstate = SqlUnique
  /\ \E c \in contacts : c.upvotes + c.downvotes = 1

\* C9: no insert or update of a Contact row leaves its counters different
\* from the live Vote counts; a newly created Contact has upvotes =
\* downvotes = 0.
C9_ContactWriteKeepsCounters ==
  [][\A c \in contacts' :
       c \notin contacts
       => /\ c.upvotes = CountVotes(votes', c.id, "up")
          /\ c.downvotes = CountVotes(votes', c.id, "down")]_vars

\* C10: the listing is ordered by (upvotes - downvotes) descending and,
\* among rows of equal score, by created_at descending.
C10_ListingRanked ==
  \A i, j \in 1..Len(listing) :
    i < j => \/ listing[i].score > listing[j].score
             \/ /\ listing[i].score = listing[j].score
                /\ listing[i].created_at >= listing[j].created_at

\* The spec's scenario: (5,1), (3,0), (5,2) listed with the score-4 contact
\* first and the later created of the two score-3 contacts second.
C10_Witness ==
  /\ Len(listing) = 3
  /\ listing[1].upvotes = 5 /\ listing[1].downvotes = 1
  /\ listing[2].score = 3 /\ listing[3].score = 3
  /\ {listing[2].upvotes, listing[3].upvotes} = {3, 5}
  /\ listing[2].created_at > listing[3].created_at

\* The ids of the contacts a listing holds.
C11_Listed(rows) == { rows[i].id : i \in 1..Len(rows) }

\* C11: under SpecRanking every read of the discovery listing returns
\* exactly the contacts whose is_public is true when it is read, each once:
\* a contact with is_public = false is not in it whatever its counters are.
C11_ListedIffPublic ==
  [][ReadView =>
       /\ C11_Listed(listing') = { c.id : c \in { ec \in contacts : ec.is_public = "true" } }
       /\ Len(listing') = Cardinality(C11_Listed(listing'))]_vars

\* A listing of the two public contacts, read while the third contact is
\* private and has a higher score than both.
C11_Witness ==
  /\ Len(listing) = 2
  /\ C11_Listed(listing) = { c.id : c \in { ec \in contacts : ec.is_public = "true" } }
  /\ \E d \in contacts :
       /\ d.is_public = "false"
       /\ \A i \in 1..Len(listing) : listing[i].score < Score(d)

\* C17: under SpecResumes a resume insert for owner O, and a resume update of
\* a row owned by O (a change of its owner included), with any is_active,
\* leaves the rows of every other owner as they were, column for column, and
\* adds none to them.
C17_OtherOwnersUntouched ==
  [][\A O \in Users :
       \/ { r \in resumes' : r.user_id # O } = { r \in resumes : r.user_id # O }
       \/ \A actor \in Users :
            ~( \/ \E is_active \in Optional(BoolVals),
                     resume_name \in Optional(ResumeNames) :
                    InsertResume(actor, O, is_active, resume_name)
               \/ \E r \in OwnedResumes(O) :
                    \/ \E is_active \in Optional(BoolVals),
                          resume_name \in Optional(ResumeNames) :
                         UpdateResume(actor, r.id, is_active, resume_name)
                    \/ \E user_id \in Users : ReassignResume(actor, r.id, user_id) )]_vars

\* One owner has two resumes, one of them demoted, so has written an active
\* resume next to an active sibling, and the other owner's resume is active.
C17_Witness ==
  \E O \in Users, P \in Users :
    /\ O # P
    /\ Cardinality(OwnedResumes(O)) = 2
    /\ Cardinality(ActiveResumes(O)) = 1
    /\ Cardinality(ActiveResumes(P)) = 1

\* C18: under SpecResumes a resume insert or update that gives is_active
\* false (or NULL) changes no other row, and a resume delete changes no other
\* row; a user who owns resumes and has none active gets an active one only
\* through a statement that writes a row as active: an update giving
\* is_active = true, or an insert giving it or taking the column's default.
C18_NoAutoPromotion ==
  [][/\ \A id \in ResumeIds :
          \/ /\ \A r \in resumes : r.id # id => r \in resumes'
             /\ \A r \in resumes' : r.id # id => r \in resumes
          \/ \A actor \in Users :
               ~( \/ \E is_active \in {<<"false">>, <<"null">>},
                        resume_name \in Optional(ResumeNames) :
                       UpdateResume(actor, id, is_active, resume_name)
                  \/ DeleteResume(actor, id) )
     /\ \/ resumes \subseteq resumes'
        \/ \A actor \in Users, user_id \in Users :
             ~\E is_active \in {<<"false">>, <<"null">>},
                 resume_name \in Optional(ResumeNames) :
                InsertResume(actor, user_id, is_active, resume_name)
     /\ \A u \in Users :
          (OwnedResumes(u) # {} /\ ActiveResumes(u) = {} /\ ActiveResumes(u)' # {})
          => \E actor \in Users, resume_name \in Optional(ResumeNames) :
               \/ \E is_active \in {<<"true">>, Omitted} :
                    InsertResume(actor, u, is_active, resume_name)
               \/ \E r \in OwnedResumes(u) :
                    UpdateResume(actor, r.id, <<"true">>, resume_name)]_vars

\* The table holds resumes 1 and 3 of one user, none active: resume 2 has
\* been deleted and nothing was promoted.
C18_Witness ==
  \E u \in Users :
    /\ { r.id : r \in resumes } = {1, 3}
    /\ OwnedResumes(u) = resumes
    /\ ActiveResumes(u) = {}

C15_Counted(contactTable, voteTable, id) ==
  \A c \in contactTable :
    c.id = id => /\ c.upvotes = CountVotes(voteTable, id, "up")
                 /\ c.downvotes = CountVotes(voteTable, id, "down")

\* C15: under SpecVotes, whoever the voter is, once the voter's insert of a
\* vote on a contact, change of the vote_type of a vote on it or delete of a
\* vote on it has been carried out, the contact's upvotes and downvotes are
\* the numbers of its 'up' and 'down' votes.
C15_CountersWrittenForAnyVoter ==
  [][\A actor \in Users : \A c \in contacts :
       ( /\ votes' # votes
         /\ \/ \E vote_type \in VoteTypes : InsertVote(actor, c.id, actor, vote_type)
            \/ \E v \in votes :
                 /\ v.contact_id = c.id
                 /\ \/ \E vote_type \in VoteTypes :
                         UpdateVote(actor, v.id, "vote_type", vote_type)
                    \/ DeleteVote(actor, v.id) )
       => C15_Counted(contacts', votes', c.id)]_vars

\* C16: under SpecVotes, once an update has moved a vote from one contact to
\* another, both contacts carry the counts of their votes.  Stated for a
\* voter who owns both contacts, whose updates of them the policies allow.
C16_BothContactsRecounted ==
  [][\A actor \in Users : \A v \in votes : \A c \in contacts :
       ( /\ c.id # v.contact_id
         /\ votes' # votes
         /\ UpdateVote(actor, v.id, "contact_id", c.id)
         /\ \A d \in contacts : d.id \in {v.contact_id, c.id} => d.user_id = actor )
       => /\ C15_Counted(contacts', votes', v.contact_id)
          /\ C15_Counted(contacts', votes', c.id)]_vars

\* C20: under SpecVotes an update that changes a vote's vote_type takes one
\* from the counter of the old type of the vote's contact, adds one to the
\* counter of the new type and so keeps their sum; on a contact whose only
\* vote goes from 'up' to 'down' it leaves upvotes = 0 and downvotes = 1.
C20_TypeChangeMovesOneUnit ==
  [][\A actor \in Users : \A v \in votes : \A vote_type \in VoteTypes \ {v.vote_type} :
       (votes' # votes /\ UpdateVote(actor, v.id, "vote_type", vote_type))
       => \A c \in contacts : \A d \in contacts' :
            (c.id = v.contact_id /\ d.id = c.id)
            => /\ d.upvotes + d.downvotes = c.upvotes + c.downvotes
               /\ d.upvotes = c.upvotes + (IF vote_type = "up" THEN 1 ELSE -1)
               /\ d.downvotes = c.downvotes + (IF vote_type = "down" THEN 1 ELSE -1)
               /\ ({ w \in votes : w.contact_id = c.id } = {v} /\ vote_type = "down")
                    => (d.upvotes = 0 /\ d.downvotes = 1)]_vars

C13_AtMostOneActiveOnceCommitted ==
  (\A t \in Sessions : txs[t] = Idle)
    => \A u \in Users : Cardinality(ActiveResumes(u)) <= 1

\* C14: under SpecVotesTx, when a vote statement commits with no other
\* statement left in flight, the contact it voted on carries the counts of
\* the committed votes.  Stated for a voter who owns the contact, whose
\* update of it the policies allow.
C14_LastCommitCountsAllVotes ==
  [][\A t \in Sessions :
       ( /\ CommitVote(t)
         /\ votes' # votes
         /\ \A s \in Sessions \ {t} : txs[s] = Idle )
       => LET tx == txs[t]
              id == COALESCE(ContactIdOf(tx.new), ContactIdOf(tx.old))
          IN  (\A c \in contacts : c.id = id => c.user_id = tx.actor)
                => C15_Counted(contacts', votes', id)]_vars

\* C21: under SpecVotes, once the delete of the only vote a contact has left
\* has been carried out, the contact's upvotes and downvotes are both 0.
C21_LastVoteDeletedZeroes ==
  [][\A actor \in Users : \A v \in votes :
       ( /\ votes' # votes
         /\ DeleteVote(actor, v.id)
         /\ \A w \in votes' : w.contact_id # v.contact_id )
       => \A c \in contacts' :
            c.id = v.contact_id => (c.upvotes = 0 /\ c.downvotes = 0)]_vars

\* The contacts other than C are as they were, and C differs at most in
\* upvotes and downvotes.
C27_Frame(C) ==
  /\ { c \in contacts' : c.id # C } = { c \in contacts : c.id # C }
  /\ \A c \in contacts : c.id = C =>
       \E d \in contacts' :
         /\ d.id = C
         /\ d = [c EXCEPT !.upvotes = d.upvotes, !.downvotes = d.downvotes]

\* C27: under SpecVotes a vote insert with contact_id C, a vote update that
\* leaves the vote with contact_id C and a delete of a vote with contact_id
\* C change no contact other than C, and of C nothing but upvotes and
\* downvotes.
C27_OnlyCountersOfTheContact ==
  [][\A C \in ContactIds :
       \/ C27_Frame(C)
       \/ \A actor \in Users :
            ~( \/ \E user_id \in Users, vote_type \in VoteTypeInputs :
                    InsertVote(actor, C, user_id, vote_type)
               \/ \E id \in VoteIds : UpdateVote(actor, id, "contact_id", C)
               \/ \E v \in votes :
                    /\ v.contact_id = C
                    /\ \/ \E vote_type \in VoteTypeInputs :
                            UpdateVote(actor, v.id, "vote_type", vote_type)
                       \/ \E user_id \in Users :
                            UpdateVote(actor, v.id, "user_id", user_id)
                       \/ DeleteVote(actor, v.id) )]_vars

\* One user owns both contacts and has voted on the second: it counts the
\* vote while the first still has no vote and counts none.
C27_Witness ==
  \E c \in contacts, d \in contacts :
    /\ c.id = 1 /\ d.id = 2 /\ c.user_id = d.user_id
    /\ c.upvotes = 0 /\ c.downvotes = 0
    /\ d.upvotes + d.downvotes = 1
    /\ \A v \in votes : v.contact_id = 2 /\ v.user_id = d.user_id
    /\ votes # {}

\* A text field counts when it is non-null and neither empty nor made of
\* spaces only; the other fields count as the function counts them.
C22_Filled(p) ==
    Cardinality({ c \in TextColumns : p[c] # Null /\ p[c][1] \notin {"", " "} })
  + CountedFields(p) - Cardinality({ c \in TextColumns : TextCounts(p[c]) })

\* C22: under SpecProfiles every stored profile's profile_completeness is the
\* percentage, rounded down, of the fields that count when a text field
\* counts exactly if it is non-null and not empty or whitespace-only.
C22_BlankTextNotCounted ==
  \A p \in profiles :
    15 * p.profile_completeness - 100 * C22_Filled(p) \in -14..0

\* The fields that count when years_of_experience counts exactly if non-null
\* and above 0, preferred_locations exactly if non-null with an element,
\* availability_date exactly if non-null; the text fields and
\* education_level count as the function counts them.
C23_Filled(p) ==
    Cardinality({ c \in TextColumns : TextCounts(p[c]) })
  + (IF p.education_level # Null THEN 1 ELSE 0)
  + (IF p.years_of_experience \in { <<y>> : y \in 1..MaxYears } THEN 1 ELSE 0)
  + (IF p.preferred_locations \notin { Null, << <<>> >> } THEN 1 ELSE 0)
  + (IF p.availability_date # Null THEN 1 ELSE 0)

\* C23: under SpecProfiles every stored profile's profile_completeness is the
\* percentage, rounded down, of the fields that count with the non-text
\* fields counting as stated, and a profile that holds only column defaults
\* has profile_completeness 0.
C23_NonTextPredicates ==
  \A p \in profiles :
    /\ 15 * p.profile_completeness - 100 * C23_Filled(p) \in -14..0
    /\ (\A c \in ProfileColumns : p[c] = ProfileDefault(c))
         => p.profile_completeness = 0

\* One profile holds only column defaults, years_of_experience 0 and the
\* empty array among them, at 0; the other has years_of_experience -1 and
\* the empty array next to eleven counted text fields, at 73.
C23_Witness ==
  /\ \E p \in profiles :
       /\ \A c \in ProfileColumns : p[c] = ProfileDefault(c)
       /\ p.profile_completeness = 0
  /\ \E p \in profiles :
       /\ p.years_of_experience = <<-1>>
       /\ p.preferred_locations = << <<>> >>
       /\ p.availability_date = Null
       /\ p.profile_completeness = 73

\* C28: under SpecProfilesFrame an update that names only untracked columns
\* leaves the row's profile_completeness as it was; and the scoring function
\* returns every row a statement stores, whatever profile_completeness the
\* row is given, with no column changed but profile_completeness.
C28_UntrackedWriteKeepsCompleteness ==
  [][/\ \A user_id \in Users :
          \/ \A old \in profiles, row \in profiles' :
               (old.user_id = user_id /\ row.user_id = user_id)
               => row.profile_completeness = old.profile_completeness
          \/ \A actor \in Users, input \in UntrackedInputs,
                completeness \in Optional(CompletenessInputs) :
               ~UpdateProfile(actor, user_id, input, completeness)
     /\ \A row \in profiles', given \in {CompletenessDefault} \cup CompletenessInputs :
          LET new == [row EXCEPT !.profile_completeness = given]
          IN  \A c \in ProfileColumns \cup {"user_id"} :
                calculate_profile_completeness(new)[c] = new[c]]_vars

\* A statement has written a profile that has a twitter_url and a timezone
\* other than the default, and nine counted fields at 60.
C28_Witness ==
  /\ request # <<>> /\ request.rows = 1
  /\ \E p \in profiles :
       /\ p.user_id = request.user_id
       /\ p.twitter_url = <<"@a">>
       /\ p.timezone = <<"CET">>
       /\ p.profile_completeness = 60

\* The resume `id` is the only active resume of its owner, if it is active.
C26_OnlyActive(table, id) ==
  \A r \in table :
    (r.id = id /\ r.is_active = "true")
    => \A q \in table : (q.user_id = r.user_id /\ q.is_active = "true") => q = r

\* The statements that write the resume `id` and complete: an insert that is
\* given it as its fresh id, and an update of it or of its user_id by a
\* caller the policies let through.
C26_Written(id) ==
  /\ sqlstate' = SqlOk
  /\ \/ /\ id \notin { r.id : r \in resumes }
        /\ id \in { r.id : r \in resumes' }
     \/ \E old \in resumes :
          /\ old.id = id
          /\ \/ \E actor \in { old.user_id }, is_active \in Optional(BoolVals),
                   resume_name \in Optional(ResumeNames) :
                  UpdateResume(actor, id, is_active, resume_name)
             \/ \E actor \in { old.user_id }, user_id \in Users :
                  ReassignResume(actor, id, user_id)

\* C26: under SpecResumesLegacy, whose resumes table starts with any number
\* of active resumes per owner, every completed insert or update that leaves
\* the resume it writes with is_active = true leaves that resume the only
\* active resume of its owner; an update that leaves is_active out, such as
\* a rename, is among them.
C26_WriteHeals ==
  [][\A id \in ResumeIds :
       C26_OnlyActive(resumes', id) \/ ~C26_Written(id)]_vars

\* An owner of three resumes, with the renamed one the only active one.
C26_Witness ==
  /\ sqlstate = SqlOk
  /\ \E u \in Users :
       /\ Cardinality(OwnedResumes(u)) = MaxResumes
       /\ \E r \in OwnedResumes(u) :
            /\ r.resume_name # ResumeNameDefault
            /\ ActiveResumes(u) = {r}
            /\ \A q \in OwnedResumes(u) \ {r} : q.resume_name = ResumeNameDefault

\* C24: under SpecVotes what a reader finds in the tables after any statement
\* is consistent with every row it can see: a contact that has a vote carries
\* the counts of its votes, an owner who has an active resume has no second
\* one, and a profile carries the percentage of its counted fields.
C24_NoStaleDerivedValue ==
  /\ \A v \in votes : C15_Counted(contacts, votes, v.contact_id)
  /\ \A r \in resumes :
       r.is_active = "true" => ActiveResumes(r.user_id) = {r}
  /\ \A p \in profiles :
       p.profile_completeness = Percentage(CountedFields(p))

\* C25: under SpecCompose a message composed for a user who owns several
\* resumes, exactly one of them active, is made of the content of the active
\* resume.
C25_ComposedFromActiveResume ==
  [][\A user \in Users :
       ( /\ Cardinality(OwnedResumes(user)) > 1
         /\ Cardinality(ActiveResumes(user)) = 1
         /\ GenerateMessage(user) )
       => \A a \in applications' \ applications :
            \E r \in ActiveResumes(user) : a.email_body = ResumeContent(r)]_vars

\* C29: under SpecSend, after every step, an application in status 'sent' is
\* one whose email the send endpoint accepted, and an application whose
\* email the endpoint accepted is not in status 'failed' once its
\* handleSendEmail call has returned; and no step takes an application out
\* of status 'sent'.
C29_SendOutcomeConsistent ==
  [][/\ \A a \in applications' :
          /\ a.status = "sent" => a.id \in outbox'
          /\ (a.id \in outbox' /\ sending'[a.id] = Idle) => a.status # "failed"
     /\ \A a \in applications :
          a.status = "sent"
          => \E b \in applications' : b.id = a.id /\ b.status = "sent"]_vars

\* C30: under SpecBatch, after every step, at most one result is
\* 'generating', the results before it are 'success' or 'error' and those
\* after it 'pending'; when generateAllMessages returns every result is
\* 'success' or 'error', whatever posts failed; and a result is 'success'
\* only if a draft application of its post is in the table.
C30_BatchProgress ==
  [][/\ Cardinality({ i \in DOMAIN results' : results'[i].status = "generating" }) <= 1
     /\ \A i, j \in DOMAIN results' :
          (i < j /\ results'[j].status # "pending")
          => results'[i].status \in {"success", "error"}
     /\ (generating /\ ~generating')
          => \A i \in DOMAIN results' : results'[i].status \in {"success", "error"}
     /\ \A i \in DOMAIN results' :
          results'[i].status = "success"
          => \E a \in applications' :
               a.post_id = <<results'[i].postId>> /\ a.status = "draft"]_vars

====
